---- MODULE Spec2Model ----
(* Model of tutorials/linebreak/ld.py: a wrapper around ld.lld that filters   *)
(* `--export <name>` pairs against the SYMBOLS allow-list and then runs the    *)
(* linker, returning its exit code.  A token is a tuple of one-character       *)
(* strings, so that str.startswith and list membership are computed on the    *)
(* characters, as Python computes them.                                        *)
EXTENDS Integers, Sequences, FiniteSets, TLC

(* ---- the names of SYMBOLS (ld.py lines 9-15) ---- *)
ICU4XDataProvider_create_compiled == <<"I", "C", "U", "4", "X", "D", "a", "t", "a", "P", "r", "o", "v", "i", "d", "e", "r", "_", "c", "r", "e", "a", "t", "e", "_", "c", "o", "m", "p", "i", "l", "e", "d">>
ICU4XDataProvider_destroy == <<"I", "C", "U", "4", "X", "D", "a", "t", "a", "P", "r", "o", "v", "i", "d", "e", "r", "_", "d", "e", "s", "t", "r", "o", "y">>
ICU4XCodePointMapData8_load_line_break == <<"I", "C", "U", "4", "X", "C", "o", "d", "e", "P", "o", "i", "n", "t", "M", "a", "p", "D", "a", "t", "a", "8", "_", "l", "o", "a", "d", "_", "l", "i", "n", "e", "_", "b", "r", "e", "a", "k">>
ICU4XCodePointMapData8_get32 == <<"I", "C", "U", "4", "X", "C", "o", "d", "e", "P", "o", "i", "n", "t", "M", "a", "p", "D", "a", "t", "a", "8", "_", "g", "e", "t", "3", "2">>
ICU4XCodePointMapData8_destroy == <<"I", "C", "U", "4", "X", "C", "o", "d", "e", "P", "o", "i", "n", "t", "M", "a", "p", "D", "a", "t", "a", "8", "_", "d", "e", "s", "t", "r", "o", "y">>

SYMBOLS == {ICU4XDataProvider_create_compiled, ICU4XDataProvider_destroy, ICU4XCodePointMapData8_load_line_break, ICU4XCodePointMapData8_get32, ICU4XCodePointMapData8_destroy}

(* ---- string literals of main ---- *)
EXPORT == <<"-", "-", "e", "x", "p", "o", "r", "t">>
ICU4X == <<"I", "C", "U", "4", "X">>
LD_LLD == <<"l", "d", ".", "l", "l", "d">>

(* ---- command-line tokens used as inputs ---- *)
ExportEqName == <<"-", "-", "e", "x", "p", "o", "r", "t", "=", "n", "a", "m", "e">>
ICU4XFoo_bar == <<"I", "C", "U", "4", "X", "F", "o", "o", "_", "b", "a", "r">>
ICU4 == <<"I", "C", "U", "4">>
malloc == <<"m", "a", "l", "l", "o", "c">>
DashO == <<"-", "o">>
OutWasm == <<"o", "u", "t", ".", "w", "a", "s", "m">>
InputO == <<"i", "n", "p", "u", "t", ".", "o">>

(* Longest enumerated command line (number of tokens after the program name). *)
MaxLen == 4

(* Largest signal number by which the child is terminated in the model. *)
MaxSignal == 2

Tokens == {EXPORT, ExportEqName, ICU4XDataProvider_create_compiled, ICU4XFoo_bar, ICU4X, ICU4, malloc}

EndToEndInput == <<DashO, OutWasm, EXPORT, ICU4XDataProvider_create_compiled, EXPORT, ICU4XFoo_bar, EXPORT, malloc, InputO>>

EndToEndOutput == <<DashO, OutWasm, EXPORT, ICU4XDataProvider_create_compiled, EXPORT, malloc, InputO>>

AllSymbolsInput == <<EXPORT, ICU4XDataProvider_create_compiled, EXPORT, ICU4XDataProvider_destroy, EXPORT, ICU4XCodePointMapData8_load_line_break, EXPORT, ICU4XCodePointMapData8_get32, EXPORT, ICU4XCodePointMapData8_destroy>>

Examples == {EndToEndInput, AllSymbolsInput}

Inputs == UNION {[1..n -> Tokens] : n \in 0..MaxLen} \cup Examples

(* Exit codes the child returns in the model: a POSIX exit status is 0..255. *)
ChildExitCodes == {0, 1, 2, 127, 255}

(* argv: sys.argv[1:]; i: position of the loop in argv; new_argv, is_export:  *)
(* the locals of main; src[k]: the position in argv of the token new_argv[k]  *)
(* was produced from; flagged: the positions at which line 26 ran; pc: where   *)
(* the process is; spawn_calls: calls of subprocess.run; child_*: the child    *)
(* process; returncode: result.returncode; exit_code: the wrapper's status.    *)
VARIABLES argv, i, new_argv, src, flagged, is_export, pc, spawn_calls, child_state, child_args, child_code, returncode, exit_code

vars == <<argv, i, new_argv, src, flagged, is_export, pc, spawn_calls, child_state, child_args, child_code, returncode, exit_code>>

scanVars == <<argv, i, new_argv, src, flagged, is_export>>

procVars == <<spawn_calls, child_state, child_args, child_code, returncode, exit_code>>

(* str.startswith: s begins with the characters of prefix. *)
StartsWith(s, prefix) == Len(s) >= Len(prefix) /\ SubSeq(s, 1, Len(prefix)) = prefix


(* Line 22 with the `not` lost. *)
Keep_Inverted(arg) == StartsWith(arg, ICU4X) \/ arg \in SYMBOLS

(* Line 22 without the allow-list test. *)
Keep_PrefixOnly(arg) == ~StartsWith(arg, ICU4X)

(* The condition of line 22: the pair `--export arg` is kept. *)
Keep(arg) == ~StartsWith(arg, ICU4X) \/ arg \in SYMBOLS

(* One iteration of the loop of lines 20-29 on the scan state st. *)
Step(st, arg) == IF st.is_export THEN [new_argv |-> IF Keep(arg) THEN st.new_argv \o <<EXPORT, arg>> ELSE st.new_argv, is_export |-> FALSE] ELSE IF arg = EXPORT THEN [new_argv |-> st.new_argv, is_export |-> TRUE] ELSE [new_argv |-> Append(st.new_argv, arg), is_export |-> FALSE]

RECURSIVE ScanFrom(_, _, _)
ScanFrom(st, args, k) == IF k > Len(args) THEN st ELSE ScanFrom(Step(st, args[k]), args, k + 1)

(* The argument list main builds from args (lines 18-29), as a function. *)
Filter(args) == ScanFrom([new_argv |-> <<>>, is_export |-> FALSE], args, 1).new_argv

(* The status the operating system reports for sys.exit(code): the low 8 bits. *)
ExitStatus(code) == code % 256

Init == /\ argv \in Inputs
        /\ i = 1
        /\ new_argv = <<>>
        /\ src = <<>>
        /\ flagged = {}
        /\ is_export = FALSE
        /\ pc = "scan"
        /\ spawn_calls = 0
        /\ child_state = "none"
        /\ child_args = <<>>
        /\ child_code = 0
        /\ returncode = 0
        /\ exit_code = -1


(* Lines 21-26 with the `--export` test made first: a `--export` that follows *)
(* a `--export` starts a new pair instead of being its argument.              *)
ExportArgKeep_Reflag == /\ pc = "scan" /\ i <= Len(argv)
                        /\ is_export
                        /\ Keep(argv[i])
                        /\ IF argv[i] = EXPORT
                              THEN /\ is_export' = TRUE
                                   /\ flagged' = flagged \cup {i}
                                   /\ UNCHANGED <<new_argv, src>>
                              ELSE /\ new_argv' = new_argv \o <<EXPORT, argv[i]>>
                                   /\ src' = src \o <<i - 1, i>>
                                   /\ is_export' = FALSE
                                   /\ UNCHANGED flagged
                        /\ i' = i + 1
                        /\ UNCHANGED <<argv, pc, procVars>>

(* Lines 21-24, condition of line 22 true: the pair is appended. *)
ExportArgKeep == /\ pc = "scan" /\ i <= Len(argv)
                 /\ is_export
                 /\ Keep(argv[i])
                 /\ new_argv' = new_argv \o <<EXPORT, argv[i]>>
                 /\ src' = src \o <<i - 1, i>>
                 /\ is_export' = FALSE
                 /\ i' = i + 1
                 /\ UNCHANGED <<argv, flagged, pc, procVars>>


(* Line 24 indented under the `if` of line 22: no reset when the pair is dropped. *)
ExportArgDrop_Sticky == /\ pc = "scan" /\ i <= Len(argv)
                        /\ is_export
                        /\ ~Keep(argv[i])
                        /\ is_export' = TRUE
                        /\ i' = i + 1
                        /\ UNCHANGED <<argv, new_argv, src, flagged, pc, procVars>>

(* The drop branch dropping only the name: `--export` is appended alone. *)
ExportArgDrop_KeepFlag == /\ pc = "scan" /\ i <= Len(argv)
                          /\ is_export
                          /\ ~Keep(argv[i])
                          /\ new_argv' = Append(new_argv, EXPORT)
                          /\ src' = Append(src, i - 1)
                          /\ is_export' = FALSE
                          /\ i' = i + 1
                          /\ UNCHANGED <<argv, flagged, pc, procVars>>

(* Lines 21-24, condition of line 22 false: nothing is appended. *)
ExportArgDrop == /\ pc = "scan" /\ i <= Len(argv)
                 /\ is_export
                 /\ ~Keep(argv[i])
                 /\ is_export' = FALSE
                 /\ i' = i + 1
                 /\ UNCHANGED <<argv, new_argv, src, flagged, pc, procVars>>


(* Lines 25-26 appending `--export` as soon as it is seen. *)
ExportFlag_Eager == /\ pc = "scan" /\ i <= Len(argv)
                    /\ ~is_export
                    /\ argv[i] = EXPORT
                    /\ new_argv' = Append(new_argv, EXPORT)
                    /\ src' = Append(src, i)
                    /\ is_export' = TRUE
                    /\ flagged' = flagged \cup {i}
                    /\ i' = i + 1
                    /\ UNCHANGED <<argv, pc, procVars>>

(* Lines 25-26 passing a `--export` that ends the command line through. *)
ExportFlag_FlushLast == /\ pc = "scan" /\ i <= Len(argv)
                        /\ ~is_export
                        /\ argv[i] = EXPORT
                        /\ new_argv' = IF i = Len(argv) THEN Append(new_argv, EXPORT) ELSE new_argv
                        /\ src' = IF i = Len(argv) THEN Append(src, i) ELSE src
                        /\ is_export' = TRUE
                        /\ flagged' = flagged \cup {i}
                        /\ i' = i + 1
                        /\ UNCHANGED <<argv, pc, procVars>>

(* Lines 25-26: `--export` seen while is_export is false. *)
ExportFlag == /\ pc = "scan" /\ i <= Len(argv)
              /\ ~is_export
              /\ argv[i] = EXPORT
              /\ is_export' = TRUE
              /\ flagged' = flagged \cup {i}
              /\ i' = i + 1
              /\ UNCHANGED <<argv, new_argv, src, pc, procVars>>


(* Lines 27-29 applying the test of line 22 to every token. *)
OtherArg_Filtered == /\ pc = "scan" /\ i <= Len(argv)
                     /\ ~is_export
                     /\ argv[i] # EXPORT
                     /\ new_argv' = IF Keep(argv[i]) THEN Append(new_argv, argv[i]) ELSE new_argv
                     /\ src' = IF Keep(argv[i]) THEN Append(src, i) ELSE src
                     /\ is_export' = FALSE
                     /\ i' = i + 1
                     /\ UNCHANGED <<argv, flagged, pc, procVars>>

(* Lines 27-29: any other token is appended. *)
OtherArg == /\ pc = "scan" /\ i <= Len(argv)
            /\ ~is_export
            /\ argv[i] # EXPORT
            /\ new_argv' = Append(new_argv, argv[i])
            /\ src' = Append(src, i)
            /\ is_export' = FALSE
            /\ i' = i + 1
            /\ UNCHANGED <<argv, flagged, pc, procVars>>


(* Line 30 passing sys.argv[1:] instead of new_argv. *)
RunLinker_Unfiltered == /\ pc = "scan" /\ i > Len(argv)
                        /\ \E code \in ChildExitCodes :
                              /\ child_code' = code
                              /\ returncode' = code
                        /\ spawn_calls' = spawn_calls + 1
                        /\ child_state' = "exited"
                        /\ child_args' = <<LD_LLD>> \o argv
                        /\ pc' = "returned"
                        /\ UNCHANGED <<scanVars, exit_code>>

(* Line 30: subprocess.run starts ld.lld, which exits with some code. *)
RunLinker == /\ pc = "scan" /\ i > Len(argv)
             /\ \E code \in ChildExitCodes :
                   /\ child_code' = code
                   /\ returncode' = code
             /\ spawn_calls' = spawn_calls + 1
             /\ child_state' = "exited"
             /\ child_args' = <<LD_LLD>> \o new_argv
             /\ pc' = "returned"
             /\ UNCHANGED <<scanVars, exit_code>>

(* Line 30: ld.lld starts and is terminated by a signal; returncode is -signal. *)
RunLinkerSignalled == /\ pc = "scan" /\ i > Len(argv)
                      /\ \E sig \in 1..MaxSignal : returncode' = -sig
                      /\ spawn_calls' = spawn_calls + 1
                      /\ child_state' = "signalled"
                      /\ child_args' = <<LD_LLD>> \o new_argv
                      /\ pc' = "returned"
                      /\ UNCHANGED <<scanVars, child_code, exit_code>>

(* Line 30: ld.lld cannot be started; subprocess.run raises OSError. *)
LaunchFailure == /\ pc = "scan" /\ i > Len(argv)
                 /\ spawn_calls' = spawn_calls + 1
                 /\ child_state' = "failed"
                 /\ pc' = "raised"
                 /\ UNCHANGED <<scanVars, child_args, child_code, returncode, exit_code>>


(* Lines 31 and 34 reporting only success or failure. *)
SysExit_Boolean == /\ pc = "returned"
                   /\ exit_code' = IF returncode = 0 THEN 0 ELSE 1
                   /\ pc' = "done"
                   /\ UNCHANGED <<scanVars, spawn_calls, child_state, child_args, child_code, returncode>>

(* Lines 31 and 34: sys.exit(main()) with the child's returncode. *)
SysExit == /\ pc = "returned"
           /\ exit_code' = ExitStatus(returncode)
           /\ pc' = "done"
           /\ UNCHANGED <<scanVars, spawn_calls, child_state, child_args, child_code, returncode>>

(* Line 34: the exception leaves main uncaught; the interpreter exits with 1. *)
UncaughtExit == /\ pc = "raised"
                /\ exit_code' = 1
                /\ pc' = "done"
                /\ UNCHANGED <<scanVars, spawn_calls, child_state, child_args, child_code, returncode>>

Next == \/ ExportArgKeep
        \/ ExportArgDrop
        \/ ExportFlag
        \/ OtherArg
        \/ RunLinker
        \/ RunLinkerSignalled
        \/ LaunchFailure
        \/ SysExit
        \/ UncaughtExit

Spec == Init /\ [][Next]_vars

TypeOK == /\ argv \in Inputs
          /\ i \in 1..(Len(argv) + 1)
          /\ is_export \in BOOLEAN
          /\ Len(src) = Len(new_argv)
          /\ pc \in {"scan", "returned", "raised", "done"}

(* ---------------------------------------------------------------------- *)
(* Properties                                                             *)
(* ---------------------------------------------------------------------- *)

Range(s) == {s[k] : k \in DOMAIN s}

(* The loop of lines 20-29 has consumed every token. *)
ScanDone == i > Len(argv)

(* Token X does not start with ICU4X, or is one of the allow-listed names. *)
Exportable(X) == ~StartsWith(X, ICU4X) \/ X \in {ICU4XDataProvider_create_compiled, ICU4XDataProvider_destroy, ICU4XCodePointMapData8_load_line_break, ICU4XCodePointMapData8_get32, ICU4XCodePointMapData8_destroy}

(* Token X starts with ICU4X and is not in the allow-list. *)
Filtered(X) == ~Exportable(X)

(* The tokens at positions j, j+1 of argv are emitted as an adjacent pair. *)
PairEmitted(j) == \E k \in 1..(Len(src) - 1) : src[k] = j /\ src[k + 1] = j + 1 /\ new_argv[k] = EXPORT /\ new_argv[k + 1] = argv[j + 1]

(* new_argv is argv restricted to the increasing positions src. *)
IsSubsequence == /\ Len(src) = Len(new_argv)
                 /\ \A k \in 1..Len(src) : src[k] \in 1..Len(argv) /\ new_argv[k] = argv[src[k]]
                 /\ \A k \in 1..(Len(src) - 1) : src[k] < src[k + 1]

(* C1, as stated: whenever `--export X` occurs in the input with X starting   *)
(* with ICU4X and not allow-listed, neither `--export` nor X appears anywhere *)
(* in the filtered argument sequence.                                         *)
C1_Original == ScanDone => \A j \in 1..(Len(argv) - 1) : (argv[j] = EXPORT /\ Filtered(argv[j + 1])) => (EXPORT \notin Range(new_argv) /\ argv[j + 1] \notin Range(new_argv))

(* C1, amended: for every pair `--export X` of the input whose `--export` is  *)
(* read with is_export false (it is not itself the argument of a preceding    *)
(* `--export`), where X starts with ICU4X and is not allow-listed, neither    *)
(* token of that pair is ever put into the filtered argument sequence.        *)
C1_DroppedPairAbsent == \A j \in flagged : (j + 1 < i /\ Filtered(argv[j + 1])) => (j \notin Range(src) /\ j + 1 \notin Range(src) /\ ~PairEmitted(j))

C1_Witness == /\ pc = "done"
              /\ \E j \in flagged : j + 1 <= Len(argv) /\ Filtered(argv[j + 1]) /\ j \notin Range(src)
              /\ Len(new_argv) = 2
              /\ EXPORT \in Range(new_argv)

(* C2, as stated: every occurrence `--export X` in the input with X not       *)
(* starting with ICU4X, or X allow-listed, is preserved in the output,        *)
(* adjacent and at the same relative position.                                *)
C2_Original == ScanDone => (IsSubsequence /\ \A j \in 1..(Len(argv) - 1) : (argv[j] = EXPORT /\ Exportable(argv[j + 1])) => PairEmitted(j))

(* C2, amended: the same, for the occurrences whose `--export` is read with   *)
(* is_export false, or whose X is not itself `--export`.                      *)
C2_KeptPairPreserved == /\ IsSubsequence
                        /\ \A j \in 1..(Len(argv) - 1) : (j + 1 < i /\ argv[j] = EXPORT /\ Exportable(argv[j + 1]) /\ (j \in flagged \/ argv[j + 1] # EXPORT)) => PairEmitted(j)

C2_Witness == /\ pc = "done"
              /\ argv = AllSymbolsInput
              /\ new_argv = AllSymbolsInput
              /\ flagged = {1, 3, 5, 7, 9}

(* C3: an input without any token equal to `--export` is passed through       *)
(* unchanged: same tokens, same order, same length.                           *)
C3_IdentityWithoutExport == (ScanDone /\ EXPORT \notin Range(argv)) => new_argv = argv

C3_Witness == /\ pc = "done"
              /\ EXPORT \notin Range(argv)
              /\ ExportEqName \in Range(argv)
              /\ ICU4XFoo_bar \in Range(argv)
              /\ Len(argv) = MaxLen
              /\ child_args = <<LD_LLD>> \o argv

(* C4, as stated: when the last token of the input is `--export`, the         *)
(* filtered output contains no `--export`.                                    *)
C4_Original == (ScanDone /\ Len(argv) > 0 /\ argv[Len(argv)] = EXPORT) => EXPORT \notin Range(new_argv)

(* C4, amended: when the input ends with a `--export` read with is_export     *)
(* false (a dangling one), the scan step for it is enabled, it is not put     *)
(* into the output, and the output is that of the input without its last      *)
(* token; the input [--export] gives [].                                      *)
C4_DanglingExportDropped == /\ (pc = "scan" /\ i = Len(argv) /\ ~is_export /\ argv[i] = EXPORT) => ENABLED ExportFlag
                            /\ (ScanDone /\ is_export) => /\ argv[Len(argv)] = EXPORT
                                                          /\ Len(argv) \notin Range(src)
                                                          /\ new_argv = Filter(SubSeq(argv, 1, Len(argv) - 1))
                            /\ (ScanDone /\ argv = <<EXPORT>>) => new_argv = <<>>

C4_Witness == /\ pc = "done"
              /\ is_export
              /\ Len(argv) = 3
              /\ new_argv = <<EXPORT, malloc>>

(* C5: when the child has started and exited, the wrapper's exit status is    *)
(* the child's exit code.                                                     *)
C5_ExitCodePropagated == (pc = "done" /\ child_state = "exited") => exit_code = child_code

C5_Witness == pc = "done" /\ child_state = "exited" /\ child_code = 2 /\ exit_code = 2

(* C6: subprocess.run is called at most once, only after the whole argument   *)
(* list has been scanned; a started child has received ld.lld followed by     *)
(* the complete filtered sequence; when the launch fails no child has run     *)
(* and the wrapper ends with a non-zero status.                               *)
C6_SingleInvocation == /\ spawn_calls <= 1
                       /\ spawn_calls = 1 => ScanDone
                       /\ child_state \in {"exited", "signalled"} => (spawn_calls = 1 /\ child_args = <<LD_LLD>> \o Filter(argv))
                       /\ child_state = "failed" => (spawn_calls = 1 /\ child_args = <<>> /\ pc \in {"raised", "done"})
                       /\ (child_state = "failed" /\ pc = "done") => (exit_code # 0 /\ exit_code > 0)
                       /\ pc \in {"returned", "raised", "done"} => spawn_calls = 1

C6_Witness == /\ pc = "done"
              /\ child_state = "exited"
              /\ argv = EndToEndInput
              /\ child_args = <<LD_LLD>> \o EndToEndOutput

(* C7: each pair `--export X` (its `--export` read with is_export false) is   *)
(* kept exactly when X alone is exportable, whatever happened    *)
(* to the pairs around it; is_export is false after every pair; the           *)
(* end-to-end example gives the stated output.                                *)
C7_PairsIndependent == /\ \A j \in flagged : j + 1 < i => /\ PairEmitted(j) <=> Exportable(argv[j + 1])
                                                          /\ j \in Range(src) <=> Exportable(argv[j + 1])
                                                          /\ j + 1 \in Range(src) <=> Exportable(argv[j + 1])
                                                          /\ j + 1 \notin flagged
                       /\ \A j \in flagged : i = j + 2 => ~is_export
                       /\ (ScanDone /\ argv = EndToEndInput) => new_argv = EndToEndOutput

C7_Witness == /\ pc = "scan"
              /\ argv = EndToEndInput
              /\ ScanDone
              /\ flagged = {3, 5, 7}
              /\ src = <<1, 2, 3, 4, 7, 8, 9>>
              /\ ~is_export

(* C8: while is_export is true the next token is consumed as the argument of  *)
(* the preceding `--export` whatever it is: the test of line 22 decides the   *)
(* pair, is_export becomes false and the token is not recorded as a flag;     *)
(* is_export becomes true only on a `--export` read with is_export false.     *)
C8_TwoStateMachine == [][/\ (pc = "scan" /\ i <= Len(argv) /\ is_export) => /\ i' = i + 1
                                                                            /\ ~is_export'
                                                                            /\ flagged' = flagged
                                                                            /\ new_argv' = IF Exportable(argv[i]) THEN new_argv \o <<EXPORT, argv[i]>> ELSE new_argv
                         /\ (pc = "scan" /\ i <= Len(argv) /\ ~is_export) => (is_export' <=> argv[i] = EXPORT)
                         /\ (~is_export /\ is_export') => (pc = "scan" /\ i <= Len(argv) /\ argv[i] = EXPORT /\ i' = i + 1)]_vars

C8_Witness == /\ pc = "scan"
              /\ ~is_export
              /\ i >= 3
              /\ argv[i - 1] = EXPORT
              /\ i - 2 \in flagged
              /\ i - 1 \notin flagged
              /\ i - 1 \in Range(src)

(* C9: every step leaves the output alone, or appends one token other than    *)
(* `--export` read with is_export false, or appends `--export` together with  *)
(* the argument that followed it; the step that reads `--export` with         *)
(* is_export false appends nothing.                                           *)
C9_ExportOnlyInPair == [][/\ \/ new_argv' = new_argv
                             \/ /\ pc = "scan" /\ i <= Len(argv) /\ is_export
                                /\ argv[i - 1] = EXPORT
                                /\ new_argv' = new_argv \o <<EXPORT, argv[i]>>
                             \/ /\ pc = "scan" /\ i <= Len(argv) /\ ~is_export
                                /\ argv[i] # EXPORT
                                /\ new_argv' = Append(new_argv, argv[i])
                          /\ (pc = "scan" /\ i <= Len(argv) /\ ~is_export /\ argv[i] = EXPORT) => new_argv' = new_argv]_vars

C9_Witness == /\ pc = "scan"
              /\ is_export
              /\ i = 4
              /\ argv[1] = EXPORT
              /\ new_argv = <<EXPORT, ICU4>>

(* C10: the filtered output is a subsequence of the input (tokens in input    *)
(* order, none invented or altered), and filtering it again returns it        *)
(* unchanged.                                                                 *)
C10_IdempotentSubsequence == ScanDone => (IsSubsequence /\ Filter(new_argv) = new_argv)

C10_Witness == /\ pc = "done"
               /\ Len(argv) = MaxLen
               /\ Len(new_argv) = 2
               /\ EXPORT \in Range(new_argv)
               /\ Filter(new_argv) = new_argv

====
